---------------------------- MODULE Spec2Model ----------------------------
(***************************************************************************)
(* A model of finetune.py: the batch arithmetic (calculate_batches), the   *)
(* tokenization closures of train (tokenize, generate_and_tokenize_prompt),*)
(* and the control flow of train itself (validation, loading, checkpoint   *)
(* resume, the tokenized-dataset cache, the trainer and its save callback).*)
(*                                                                         *)
(* Four specifications share the module:                                   *)
(*   SpecBatch  calculate_batches applied to arguments drawn from bounded  *)
(*              sets;                                                      *)
(*   SpecTok    generate_and_tokenize_prompt applied to one data point;    *)
(*   Spec       one run of train, for every combination of arguments;      *)
(*   SpecCache  repeated runs of train in one working directory.           *)
(* Text is modelled as the sequence of token ids the tokenizer gives it;   *)
(* concatenating texts concatenates their token sequences.                 *)
(***************************************************************************)
EXTENDS Integers, Sequences, FiniteSets, TLC

VARIABLES
    bat,        \* SpecBatch: the arguments and the outcome of calculate_batches
    tk,         \* SpecTok: cutoff_len, add_eos_token, train_on_inputs of train
    example,    \* SpecTok: the data point being mapped
    tokenized,  \* SpecTok: what generate_and_tokenize_prompt returned
    cfg,        \* train: the arguments and the environment (WORLD_SIZE) of the run
    run,        \* train: which invocation of the script this is (1, 2, ...)
    pc,         \* train: the position of the run in train
    err,        \* train: the exception that ended the run ("" while none)
    batch,      \* train: gradient_accumulation_steps, global_batch_size after line 123
    loaded,     \* train: what has been loaded (model, tokenizer, adapter, datasets)
    resume,     \* train: local resume_from_checkpoint and what the resume block did
    disk,       \* the files of the working directory that train reads and writes
    data,       \* train: train_data, val_data and the tokenizer calls of this run
    trainer,    \* the transformers.Trainer built and run by train
    prev        \* the cache-relevant arguments and datasets of the previous run

batVars == <<bat>>
tokVars == <<tk, example, tokenized>>
trainVars == <<cfg, run, pc, err, batch, loaded, resume, disk, data, trainer, prev>>
vars == <<bat, tk, example, tokenized,
          cfg, run, pc, err, batch, loaded, resume, disk, data, trainer, prev>>

Max(a, b) == IF a >= b THEN a ELSE b
Min(a, b) == IF a <= b THEN a ELSE b

---------------------------------------------------------------------------
(* Bounds *)
MaxGlobal == 6      \* global_batch_size ranges over 0..MaxGlobal
MaxPerDevice == 3   \* per_device_train_batch_size ranges over 1..MaxPerDevice
MaxAccum == 2       \* gradient_accumulation_steps ranges over 0..MaxAccum
MaxDevices == 2     \* num_devices / WORLD_SIZE ranges over 1..MaxDevices
VocabSize == 2      \* token ids are 1..VocabSize
MaxInstrLen == 1    \* tokens of the instruction text
MaxInputLen == 1    \* tokens of the input text
MaxOutputLen == 2   \* tokens of the output text
MaxCutoff == 4      \* cutoff_len ranges over 1..MaxCutoff
MaxTrainGlobal == 1     \* Spec: --global_batch_size ranges over 0..MaxTrainGlobal
MaxTrainAccum == 1      \* Spec: --gradient_accumulation_steps over 0..MaxTrainAccum
MaxTrainPerDevice == 2  \* Spec: --per_device_train_batch_size over 1..MaxTrainPerDevice
MaxWorldSize == 2       \* Spec: WORLD_SIZE ranges over 1..MaxWorldSize
MaxValSetSize == 1      \* --val_set_size ranges over 0..MaxValSetSize
TrainRows == 3          \* rows of data["train"]
EvalRows == 2           \* rows of eval_data["test"]
MaxSteps == 2           \* optimization steps of one training run
MaxSaveSteps == 2       \* --save_and_eval_steps ranges over 1..MaxSaveSteps
MaxRuns == 2            \* SpecCache: invocations of the script on one directory

---------------------------------------------------------------------------
(* calculate_batches *)

\* The function returns the pair (gradient_accumulation_steps, global_batch_size)
\* or raises; raised marks the exception.
calculate_batches(global_batch_size, per_device_train_batch_size, gradient_accumulation_steps, num_devices) ==
    IF gradient_accumulation_steps # 0
    THEN [raised |-> FALSE,
          gradient_accumulation_steps |-> gradient_accumulation_steps,
          global_batch_size |-> per_device_train_batch_size * num_devices
                                * gradient_accumulation_steps]
    ELSE IF global_batch_size # 0
    THEN [raised |-> FALSE,
          gradient_accumulation_steps |->
              Max(global_batch_size \div per_device_train_batch_size, 1),
          global_batch_size |-> global_batch_size]
    ELSE [raised |-> TRUE,
          gradient_accumulation_steps |-> 0,
          global_batch_size |-> 0]

BatchArgs ==
    [global_batch_size : 0..MaxGlobal,
     per_device_train_batch_size : 1..MaxPerDevice,
     gradient_accumulation_steps : 0..MaxAccum,
     num_devices : 1..MaxDevices]

NoBatchResult ==
    [raised |-> FALSE, gradient_accumulation_steps |-> 0, global_batch_size |-> 0]

BatchIdle ==
    [args |-> [global_batch_size |-> 0, per_device_train_batch_size |-> 1,
               gradient_accumulation_steps |-> 1, num_devices |-> 1],
     called |-> FALSE, result |-> NoBatchResult]

InitBatch ==
    \E a \in BatchArgs : bat = [args |-> a, called |-> FALSE, result |-> NoBatchResult]

CallCalculateBatches ==
    /\ ~bat.called
    /\ bat' = [bat EXCEPT !.called = TRUE,
                          !.result = calculate_batches(bat.args.global_batch_size,
                                         bat.args.per_device_train_batch_size,
                                         bat.args.gradient_accumulation_steps,
                                         bat.args.num_devices)]
    /\ UNCHANGED <<tokVars, trainVars>>

---------------------------------------------------------------------------
(* tokenize and generate_and_tokenize_prompt *)

eos_token_id == 2
IGNORE_INDEX == -100

Vocab == 1..VocabSize
SeqsUpTo(S, n) == UNION {[1..k -> S] : k \in 0..n}

\* Python list semantics used at the label overwrite: [x] * n and s[n:].
PyRepeat(x, n) == [i \in 1..Max(n, 0) |-> x]
PySliceFrom(s, n) ==
    LET start == IF n >= 0 THEN Min(n, Len(s)) ELSE Max(Len(s) + n, 0)
    IN  SubSeq(s, start + 1, Len(s))

\* Prompter.generate_prompt(instruction, input, label=None): the template text
\* around the instruction and the input, then the label when one is given.
\* The template contributes at least one token (token 1 here), so no rendering
\* is empty; label = << >> stands for label=None.
generate_prompt(instruction, input, label) ==
    <<1>> \o instruction \o input \o label

\* tokenizer(prompt, truncation=True, max_length=cutoff_len, padding=False)
tokenizer(prompt, max_length) ==
    LET ids == SubSeq(prompt, 1, Min(Len(prompt), max_length))
    IN  [input_ids |-> ids, attention_mask |-> [i \in 1..Len(ids) |-> 1]]

\* A plausible slip: the length test of the append condition is dropped.
tokenize_no_length_test(prompt, add_eos_token) ==
    LET result == tokenizer(prompt, tk.cutoff_len)
        append == /\ result.input_ids[Len(result.input_ids)] # eos_token_id
                  /\ add_eos_token
        ids == IF append THEN Append(result.input_ids, eos_token_id)
                         ELSE result.input_ids
        mask == IF append THEN Append(result.attention_mask, 1)
                          ELSE result.attention_mask
    IN  [input_ids |-> ids, attention_mask |-> mask, labels |-> ids]

tokenize(prompt, add_eos_token) ==
    LET result == tokenizer(prompt, tk.cutoff_len)
        append == /\ result.input_ids[Len(result.input_ids)] # eos_token_id
                  /\ Len(result.input_ids) < tk.cutoff_len
                  /\ add_eos_token
        ids == IF append THEN Append(result.input_ids, eos_token_id)
                         ELSE result.input_ids
        mask == IF append THEN Append(result.attention_mask, 1)
                          ELSE result.attention_mask
    IN  [input_ids |-> ids, attention_mask |-> mask, labels |-> ids]

\* The full prompt is tokenized with tokenize's default add_eos_token=True.
generate_and_tokenize_prompt(data_point) ==
    LET full_prompt == generate_prompt(data_point.instruction, data_point.input,
                                       data_point.output)
        tokenized_full_prompt == tokenize(full_prompt, TRUE)
    IN  IF ~tk.train_on_inputs
        THEN LET user_prompt == generate_prompt(data_point.instruction,
                                                data_point.input, << >>)
                 tokenized_user_prompt == tokenize(user_prompt, tk.add_eos_token)
                 len0 == Len(tokenized_user_prompt.input_ids)
                 user_prompt_len == IF tk.add_eos_token THEN len0 - 1 ELSE len0
             IN  [tokenized_full_prompt EXCEPT !.labels =
                      PyRepeat(IGNORE_INDEX, user_prompt_len)
                      \o PySliceFrom(tokenized_full_prompt.labels, user_prompt_len)]
        ELSE tokenized_full_prompt

DataPoints ==
    [instruction : SeqsUpTo(Vocab, MaxInstrLen),
     input : SeqsUpTo(Vocab, MaxInputLen),
     output : SeqsUpTo(Vocab, MaxOutputLen)]

TokConfigs ==
    [cutoff_len : 1..MaxCutoff, add_eos_token : BOOLEAN, train_on_inputs : BOOLEAN]

NoTokenized ==
    [done |-> FALSE, input_ids |-> << >>, attention_mask |-> << >>, labels |-> << >>]

TokIdle ==
    /\ tk = [cutoff_len |-> 1, add_eos_token |-> TRUE, train_on_inputs |-> TRUE]
    /\ example = [instruction |-> << >>, input |-> << >>, output |-> << >>]
    /\ tokenized = NoTokenized

InitTok ==
    /\ tk \in TokConfigs
    /\ example \in DataPoints
    /\ tokenized = NoTokenized

\* One application of the map over the dataset: .map(generate_and_tokenize_prompt)
MapExample ==
    /\ ~tokenized.done
    /\ LET r == generate_and_tokenize_prompt(example)
       IN  tokenized' = [done |-> TRUE, input_ids |-> r.input_ids,
                         attention_mask |-> r.attention_mask, labels |-> r.labels]
    /\ UNCHANGED <<bat, tk, example, trainVars>>

---------------------------------------------------------------------------
(* train: arguments, environment and files *)

\* os.path.join(resume_from_checkpoint, ...) and the tokenized-dataset paths
CkptFull == "ckpt/pytorch_model.bin"
CkptAdapter == "ckpt/adapter_model.bin"
save_to_path == "tokenized/data"
save_to_path_val == "tokenized/data_val"
\* save_to_eval is assigned only under use_second_set; otherwise the local is
\* unbound and reading it raises UnboundLocalError.
save_to_eval(c) == IF c.use_second_set THEN "tokenized/eval" ELSE "unbound"
CachePaths == {save_to_path, save_to_path_val, "tokenized/eval"}

Unbound == [state |-> "unbound", rows |-> 0]
None == [state |-> "None", rows |-> 0]
Dataset(n) == [state |-> "dataset", rows |-> n]

Configs ==
    [train_fp16 : BOOLEAN, train_bf16 : BOOLEAN, train_4bit : BOOLEAN,
     base_model : {"", "base"},
     gradient_accumulation_steps : 0..MaxTrainAccum,
     global_batch_size : 0..MaxTrainGlobal,
     per_device_train_batch_size : 1..MaxTrainPerDevice,
     WORLD_SIZE : 1..MaxWorldSize,
     is_finetune : BOOLEAN,
     use_second_set : BOOLEAN,
     val_set_size : 0..MaxValSetSize,
     resume_from_checkpoint : {"None", "ckpt"},
     save_and_eval_steps : 1..MaxSaveSteps,
     output_dir : {"out"}]

\* The defaults of train for the precision flags and the batch arguments
\* (one device, gradient accumulation given), a base model named.
CacheConfigs ==
    {c \in Configs :
        /\ ~c.train_fp16 /\ ~c.train_bf16 /\ c.train_4bit
        /\ c.base_model = "base"
        /\ c.gradient_accumulation_steps = 1 /\ c.global_batch_size = 0
        /\ c.per_device_train_batch_size = 1 /\ c.WORLD_SIZE = 1
        /\ c.save_and_eval_steps = 1}

NoBatch == [gradient_accumulation_steps |-> 0, global_batch_size |-> 0]
NothingLoaded ==
    [model |-> FALSE, tokenizer |-> FALSE, peft |-> FALSE,
     data |-> FALSE, eval_data |-> FALSE]
NoResume ==
    [resume_from_checkpoint |-> "None", checkpoint_name |-> "",
     warned |-> FALSE, restored |-> FALSE]
NoData == [train_data |-> Unbound, val_data |-> Unbound, tokenizer_calls |-> 0]
NoTrainer ==
    [built |-> FALSE, callbacks |-> {},
     args |-> [per_device_train_batch_size |-> 0,
               gradient_accumulation_steps |-> 0,
               save_steps |-> 0, output_dir |-> ""],
     train_dataset |-> Unbound, eval_dataset |-> Unbound,
     resume_from_checkpoint |-> "unset",
     state |-> [global_step |-> 0],
     control |-> [should_save |-> FALSE]]
NoPrev ==
    [val_set_size |-> 0, use_second_set |-> FALSE, cache_existed |-> FALSE,
     train_data |-> Unbound, val_data |-> Unbound]

\* The tokenized datasets found when the script starts: none, or those a
\* run with val_set_size > 0 and use_second_set has left (SaveSplits).
EmptyCache == [files |-> {}, rows |-> [q \in CachePaths |-> 0]]
SecondSetCache ==
    [files |-> {save_to_path, "tokenized/eval"},
     rows |-> [q \in CachePaths |->
                  IF q = save_to_path THEN TrainRows
                  ELSE IF q = "tokenized/eval" THEN EvalRows ELSE 0]]

\* The working directory when the script starts: the tokenized datasets, and
\* in the directory --resume_from_checkpoint names any of the two weight files.
InitDisk(cache, ckpt) ==
    [files |-> cache.files \cup ckpt,
     rows |-> cache.rows,
     checkpoints |-> {},
     snapshots |-> {}]

InitRun(configs, caches) ==
    /\ cfg \in configs
    /\ \E ckpt \in SUBSET {CkptFull, CkptAdapter}, cache \in caches :
          /\ cfg.resume_from_checkpoint = "None" => ckpt = {}
          /\ disk = InitDisk(cache, ckpt)
    /\ run = 1
    /\ pc = "start"
    /\ err = ""
    /\ batch = NoBatch
    /\ loaded = NothingLoaded
    /\ resume = NoResume
    /\ data = NoData
    /\ trainer = NoTrainer
    /\ prev = NoPrev

TrainIdle ==
    /\ cfg = [train_fp16 |-> FALSE, train_bf16 |-> FALSE, train_4bit |-> TRUE,
              base_model |-> "", gradient_accumulation_steps |-> 0,
              global_batch_size |-> 0, per_device_train_batch_size |-> 1,
              WORLD_SIZE |-> 1, is_finetune |-> FALSE, use_second_set |-> FALSE,
              val_set_size |-> 0, resume_from_checkpoint |-> "None",
              save_and_eval_steps |-> 1, output_dir |-> "out"]
    /\ disk = InitDisk(EmptyCache, {})
    /\ run = 0
    /\ pc = "idle"
    /\ err = ""
    /\ batch = NoBatch
    /\ loaded = NothingLoaded
    /\ resume = NoResume
    /\ data = NoData
    /\ trainer = NoTrainer
    /\ prev = NoPrev

Raise(e) == pc' = "error" /\ err' = e
BoolSum(flags) == Cardinality({i \in DOMAIN flags : flags[i]})

---------------------------------------------------------------------------
(* train: validation, loading, checkpoint resume *)

\* A plausible slip: > 2 where >= 2 is meant.
CheckPrecision_gt2 ==
    /\ pc = "start"
    /\ IF BoolSum(<<cfg.train_fp16, cfg.train_bf16, cfg.train_4bit>>) > 2
       THEN Raise("Exception: precision")
       ELSE pc' = "batches" /\ err' = err
    /\ UNCHANGED <<batVars, tokVars, cfg, run, batch, loaded, resume, disk, data,
                   trainer, prev>>

\* if sum([train_fp16, train_bf16, train_4bit]) >= 2: raise Exception(...)
\* The monkeypatches and the Prompter that follow (lines 90-107) touch nothing
\* modelled here.
CheckPrecision ==
    /\ pc = "start"
    /\ IF BoolSum(<<cfg.train_fp16, cfg.train_bf16, cfg.train_4bit>>) >= 2
       THEN Raise("Exception: precision")
       ELSE pc' = "batches" /\ err' = err
    /\ UNCHANGED <<batVars, tokVars, cfg, run, batch, loaded, resume, disk, data,
                   trainer, prev>>

ddp == cfg.WORLD_SIZE # 1

\* In distributed mode world_size is passed where the per-device batch size
\* is expected, and again as num_devices.
ComputeBatches ==
    /\ pc = "batches"
    /\ LET r == IF ddp
                THEN calculate_batches(cfg.global_batch_size, cfg.WORLD_SIZE,
                                       cfg.gradient_accumulation_steps,
                                       cfg.WORLD_SIZE)
                ELSE calculate_batches(cfg.global_batch_size,
                                       cfg.per_device_train_batch_size,
                                       cfg.gradient_accumulation_steps, 1)
       IN  IF r.raised
           THEN Raise("Exception: batches") /\ batch' = batch
           ELSE /\ batch' = [gradient_accumulation_steps |->
                                 r.gradient_accumulation_steps,
                             global_batch_size |-> r.global_batch_size]
                /\ pc' = "report"
                /\ err' = err
    /\ UNCHANGED <<batVars, tokVars, cfg, run, loaded, resume, disk, data,
                   trainer, prev>>

\* The parameter report prints batch as computed; then assert base_model.
ReportAndAssertBaseModel ==
    /\ pc = "report"
    /\ IF cfg.base_model = ""
       THEN Raise("AssertionError")
       ELSE pc' = "load_model" /\ err' = err
    /\ UNCHANGED <<batVars, tokVars, cfg, run, batch, loaded, resume, disk, data,
                   trainer, prev>>

LoadModel ==
    /\ pc = "load_model"
    /\ loaded' = [loaded EXCEPT !.model = TRUE]
    /\ pc' = "load_tokenizer"
    /\ UNCHANGED <<batVars, tokVars, cfg, run, err, batch, resume, disk, data,
                   trainer, prev>>

LoadTokenizer ==
    /\ pc = "load_tokenizer"
    /\ loaded' = [loaded EXCEPT !.tokenizer = TRUE]
    /\ pc' = "adapter"
    /\ UNCHANGED <<batVars, tokVars, cfg, run, err, batch, resume, disk, data,
                   trainer, prev>>

\* get_peft_model wraps the model unless is_finetune.
AttachAdapter ==
    /\ pc = "adapter"
    /\ loaded' = [loaded EXCEPT !.peft = ~cfg.is_finetune]
    /\ pc' = "load_data"
    /\ UNCHANGED <<batVars, tokVars, cfg, run, err, batch, resume, disk, data,
                   trainer, prev>>

LoadData ==
    /\ pc = "load_data"
    /\ loaded' = [loaded EXCEPT !.data = TRUE, !.eval_data = cfg.use_second_set]
    /\ pc' = "resume"
    /\ UNCHANGED <<batVars, tokVars, cfg, run, err, batch, resume, disk, data,
                   trainer, prev>>

\* The block under `if resume_from_checkpoint:`; exists(q) is os.path.exists.
ResumeBlock(c, files) ==
    LET fallback == CkptFull \notin files /\ ~c.is_finetune
        checkpoint_name == IF fallback THEN CkptAdapter ELSE CkptFull
        local == IF fallback THEN "False" ELSE c.resume_from_checkpoint
        load == checkpoint_name \in files /\ ~c.is_finetune
    IN  [resume_from_checkpoint |-> local,
         checkpoint_name |-> checkpoint_name,
         restored |-> load,
         warned |-> ~load /\ ~c.is_finetune]

ResumeCheckpoint ==
    /\ pc = "resume"
    /\ resume' = IF cfg.resume_from_checkpoint # "None"
                 THEN ResumeBlock(cfg, disk.files)
                 ELSE NoResume
    /\ pc' = "cache"
    /\ UNCHANGED <<batVars, tokVars, cfg, run, err, batch, loaded, disk, data,
                   trainer, prev>>

---------------------------------------------------------------------------
(* train: the tokenized-dataset cache *)

exists(q) == q \in disk.files
save_to_disk(d, ds, q) ==
    [d EXCEPT !.files = @ \cup {q}, !.rows[q] = ds.rows]

\* val_set_size > 0 and neither save_to_path nor save_to_path + "_val" exists:
\* split (or take the second set), shuffle and map generate_and_tokenize_prompt
\* over both datasets, one call per row.
TokenizeSplit ==
    /\ pc = "cache"
    /\ cfg.val_set_size > 0
    /\ ~exists(save_to_path) /\ ~exists(save_to_path_val)
    /\ IF ~cfg.use_second_set
       THEN data' = [train_data |-> Dataset(TrainRows - cfg.val_set_size),
                     val_data |-> Dataset(cfg.val_set_size),
                     tokenizer_calls |-> data.tokenizer_calls + TrainRows]
       ELSE data' = [train_data |-> Dataset(TrainRows),
                     val_data |-> Dataset(EvalRows),
                     tokenizer_calls |-> data.tokenizer_calls + TrainRows + EvalRows]
    /\ pc' = "save_splits"
    /\ UNCHANGED <<batVars, tokVars, cfg, run, err, batch, loaded, resume, disk,
                   trainer, prev>>

\* train_data.save_to_disk(save_to_path); val_data.save_to_disk(save_to_eval)
SaveSplits ==
    /\ pc = "save_splits"
    /\ LET d1 == save_to_disk(disk, data.train_data, save_to_path)
       IN  IF save_to_eval(cfg) = "unbound"
           THEN disk' = d1 /\ Raise("UnboundLocalError")
           ELSE /\ disk' = save_to_disk(d1, data.val_data, save_to_eval(cfg))
                /\ pc' = "build"
                /\ err' = err
    /\ UNCHANGED <<batVars, tokVars, cfg, run, batch, loaded, resume, data,
                   trainer, prev>>

\* val_set_size > 0 and one of the two tested paths exists:
\* train_data = load_from_disk(save_to_path); val_data = load_from_disk(save_to_eval)
LoadCachedSplits ==
    /\ pc = "cache"
    /\ cfg.val_set_size > 0
    /\ ~(~exists(save_to_path) /\ ~exists(save_to_path_val))
    /\ IF ~exists(save_to_path)
       THEN Raise("FileNotFoundError") /\ data' = data
       ELSE LET t == Dataset(disk.rows[save_to_path])
            IN  IF save_to_eval(cfg) = "unbound"
                THEN /\ Raise("UnboundLocalError")
                     /\ data' = [data EXCEPT !.train_data = t]
                ELSE IF ~exists(save_to_eval(cfg))
                THEN /\ Raise("FileNotFoundError")
                     /\ data' = [data EXCEPT !.train_data = t]
                ELSE /\ data' = [data EXCEPT
                                    !.train_data = t,
                                    !.val_data = Dataset(disk.rows[save_to_eval(cfg)])]
                     /\ pc' = "build"
                     /\ err' = err
    /\ UNCHANGED <<batVars, tokVars, cfg, run, batch, loaded, resume, disk,
                   trainer, prev>>

\* val_set_size = 0 and save_to_path does not exist
TokenizeTrainOnly ==
    /\ pc = "cache"
    /\ ~(cfg.val_set_size > 0)
    /\ ~exists(save_to_path)
    /\ data' = [train_data |-> Dataset(TrainRows),
                val_data |-> None,
                tokenizer_calls |-> data.tokenizer_calls + TrainRows]
    /\ disk' = save_to_disk(disk, Dataset(TrainRows), save_to_path)
    /\ pc' = "build"
    /\ UNCHANGED <<batVars, tokVars, cfg, run, err, batch, loaded, resume,
                   trainer, prev>>

\* val_set_size = 0 and save_to_path exists
LoadCachedTrainOnly ==
    /\ pc = "cache"
    /\ ~(cfg.val_set_size > 0)
    /\ exists(save_to_path)
    /\ data' = [data EXCEPT !.train_data = Dataset(disk.rows[save_to_path]),
                            !.val_data = None]
    /\ pc' = "build"
    /\ UNCHANGED <<batVars, tokVars, cfg, run, err, batch, loaded, resume, disk,
                   trainer, prev>>

---------------------------------------------------------------------------
(* train: the trainer and SavePeftModelCallback *)

\* callbacks = [SavePeftModelCallback], None if is_finetune; TrainingArguments
\* and Trainer are built from the arguments and the computed batch.
BuildTrainer ==
    /\ pc = "build"
    /\ trainer' = [trainer EXCEPT
           !.built = TRUE,
           !.callbacks = IF cfg.is_finetune THEN {} ELSE {"SavePeftModelCallback"},
           !.args = [per_device_train_batch_size |-> cfg.per_device_train_batch_size,
                     gradient_accumulation_steps |-> batch.gradient_accumulation_steps,
                     save_steps |-> cfg.save_and_eval_steps,
                     output_dir |-> cfg.output_dir],
           !.train_dataset = data.train_data,
           !.eval_dataset = data.val_data]
    /\ pc' = "train"
    /\ UNCHANGED <<batVars, tokVars, cfg, run, err, batch, loaded, resume, disk,
                   data, prev>>

\* trainer.train(resume_from_checkpoint=resume_from_checkpoint): the trainer
\* takes the local as it stands after the resume block.
TrainerTrain ==
    /\ pc = "train"
    /\ trainer' = [trainer EXCEPT
                      !.resume_from_checkpoint = resume.resume_from_checkpoint]
    /\ pc' = "training"
    /\ UNCHANGED <<batVars, tokVars, cfg, run, err, batch, loaded, resume, disk,
                   data, prev>>

\* The trainer was handed a checkpoint directory that holds no weights file:
\* what the library does then is its own; it may refuse it.
TrainerRestoreFails ==
    /\ pc = "train"
    /\ resume.resume_from_checkpoint = "ckpt"
    /\ ~exists(CkptFull)
    /\ trainer' = [trainer EXCEPT
                      !.resume_from_checkpoint = resume.resume_from_checkpoint]
    /\ Raise("ValueError")
    /\ UNCHANGED <<batVars, tokVars, cfg, run, batch, loaded, resume, disk,
                   data, prev>>

\* One optimization step; save_strategy="steps" asks for a checkpoint every
\* save_steps steps.
TrainerStep ==
    /\ pc = "training"
    /\ trainer.state.global_step < MaxSteps
    /\ LET s == trainer.state.global_step + 1
           save == s % trainer.args.save_steps = 0
       IN  /\ trainer' = [trainer EXCEPT !.state.global_step = s,
                                         !.control.should_save = save]
           /\ pc' = IF save THEN "save" ELSE "training"
    /\ UNCHANGED <<batVars, tokVars, cfg, run, err, batch, loaded, resume, disk,
                   data, prev>>

\* The trainer writes checkpoint-<global_step> and raises the save event.
TrainerSave ==
    /\ pc = "save"
    /\ disk' = [disk EXCEPT !.checkpoints = @ \cup {trainer.state.global_step}]
    /\ trainer' = [trainer EXCEPT !.control.should_save = FALSE]
    /\ pc' = IF trainer.callbacks = {} THEN "training" ELSE "on_save"
    /\ UNCHANGED <<batVars, tokVars, cfg, run, err, batch, loaded, resume,
                   data, prev>>

PeftModelPath(output_dir, step) ==
    [output_dir |-> output_dir, checkpoint |-> step, name |-> "adapter_model"]

\* A plausible slip: the checkpoint folder is left out of the path.
on_save_no_folder(args, state, control) ==
    [peft_model_path |-> PeftModelPath(args.output_dir, 0),
     control |-> control]

\* SavePeftModelCallback.on_save: the path the adapter is saved to, and the
\* control object returned.
on_save(args, state, control) ==
    [peft_model_path |-> PeftModelPath(args.output_dir, state.global_step),
     control |-> control]

\* The trainer calls on_save of each registered callback and takes the control
\* object it returns.
OnSave ==
    /\ pc = "on_save"
    /\ LET r == on_save(trainer.args, trainer.state, trainer.control)
       IN  /\ disk' = [disk EXCEPT !.snapshots = @ \cup {r.peft_model_path}]
           /\ trainer' = [trainer EXCEPT !.control = r.control]
    /\ pc' = "training"
    /\ UNCHANGED <<batVars, tokVars, cfg, run, err, batch, loaded, resume,
                   data, prev>>

\* trainer.save_state(); trainer.save_model(); and, with an adapter,
\* model.save_pretrained(output_dir)
TrainerFinish ==
    /\ pc = "training"
    /\ trainer.state.global_step = MaxSteps
    /\ disk' = [disk EXCEPT !.files = @ \cup
                   (IF cfg.is_finetune THEN {"out/pytorch_model.bin"}
                    ELSE {"out/pytorch_model.bin", "out/adapter_model.bin"})]
    /\ pc' = "done"
    /\ UNCHANGED <<batVars, tokVars, cfg, run, err, batch, loaded, resume,
                   data, trainer, prev>>

\* The script is invoked again in the same working directory, with the same
\* arguments except possibly --val_set_size and --use_second_set.
Rerun ==
    /\ pc \in {"done", "error"}
    /\ run < MaxRuns
    /\ \E v \in 0..MaxValSetSize, u \in BOOLEAN :
          cfg' = [cfg EXCEPT !.val_set_size = v, !.use_second_set = u]
    /\ prev' = [val_set_size |-> cfg.val_set_size,
                use_second_set |-> cfg.use_second_set,
                cache_existed |-> exists(save_to_path),
                train_data |-> data.train_data,
                val_data |-> data.val_data]
    /\ run' = run + 1
    /\ pc' = "start"
    /\ err' = ""
    /\ batch' = NoBatch
    /\ loaded' = NothingLoaded
    /\ resume' = NoResume
    /\ data' = NoData
    /\ trainer' = NoTrainer
    /\ UNCHANGED <<batVars, tokVars, disk>>

---------------------------------------------------------------------------
(* Specifications *)

NextBatch == CallCalculateBatches
InitBatchOnly == InitBatch /\ TokIdle /\ TrainIdle
SpecBatch == InitBatchOnly /\ [][NextBatch]_vars

NextTok == MapExample
InitTokOnly == bat = BatchIdle /\ InitTok /\ TrainIdle
SpecTok == InitTokOnly /\ [][NextTok]_vars

RunStep ==
    \/ CheckPrecision
    \/ ComputeBatches
    \/ ReportAndAssertBaseModel
    \/ LoadModel
    \/ LoadTokenizer
    \/ AttachAdapter
    \/ LoadData
    \/ ResumeCheckpoint
    \/ TokenizeSplit
    \/ SaveSplits
    \/ LoadCachedSplits
    \/ TokenizeTrainOnly
    \/ LoadCachedTrainOnly
    \/ BuildTrainer
    \/ TrainerTrain
    \/ TrainerRestoreFails
    \/ TrainerStep
    \/ TrainerSave
    \/ OnSave
    \/ TrainerFinish

\* One run of train for every combination of arguments.
Init == bat = BatchIdle /\ TokIdle /\ InitRun(Configs, {EmptyCache, SecondSetCache})
Next == RunStep
Spec == Init /\ [][Next]_vars

\* Repeated runs in one working directory.
InitCache == bat = BatchIdle /\ TokIdle /\ InitRun(CacheConfigs, {EmptyCache})
NextCache == RunStep \/ Rerun
SpecCache == InitCache /\ [][NextCache]_vars

---------------------------------------------------------------------------
(* Properties of calculate_batches (SpecBatch) *)

ExactlyOneSet(a) ==
    (a.gradient_accumulation_steps # 0) # (a.global_batch_size # 0)

\* C1: for every call with positive per-device size and device count in which
\* exactly one of gradient_accumulation_steps and global_batch_size is nonzero,
\* the returned pair satisfies
\* global = per_device x num_devices x accumulation.
C1_GlobalIsProduct ==
    (bat.called /\ ExactlyOneSet(bat.args)) =>
        /\ ~bat.result.raised
        /\ bat.result.global_batch_size =
               bat.args.per_device_train_batch_size * bat.args.num_devices
               * bat.result.gradient_accumulation_steps

---------------------------------------------------------------------------
(* Properties of the tokenization closures (SpecTok) *)

UserPrompt == generate_prompt(example.instruction, example.input, << >>)
FullPrompt == generate_prompt(example.instruction, example.input, example.output)
Last(s) == s[Len(s)]

\* Whether the instruction+input rendering received an appended eos token.
UserEosAppended ==
    Len(tokenize(UserPrompt, tk.add_eos_token).input_ids)
        = Len(tokenizer(UserPrompt, tk.cutoff_len).input_ids) + 1

\* Whether the full prompt received an appended eos token.
FullEosAppended ==
    /\ Len(tokenized.input_ids)
           = Len(tokenizer(FullPrompt, tk.cutoff_len).input_ids) + 1
    /\ Last(tokenized.input_ids) = eos_token_id
    /\ Last(tokenized.attention_mask) = 1

\* C4: with train_on_inputs disabled the labels are N ignore sentinels followed
\* by the input ids from position N on, where N is the token length of the
\* instruction+input rendering, less one only if that rendering actually
\* received an appended eos token.
C4_MaskedPrefixIsUserLength ==
    (tokenized.done /\ ~tk.train_on_inputs) =>
        LET len0 == Len(tokenize(UserPrompt, tk.add_eos_token).input_ids)
            N == IF UserEosAppended THEN len0 - 1 ELSE len0
        IN  tokenized.labels =
                PyRepeat(IGNORE_INDEX, N) \o PySliceFrom(tokenized.input_ids, N)

\* C5: an eos token (with mask bit 1) is appended to the tokenized example
\* exactly when the truncated sequence does not end in eos, is shorter than
\* cutoff_len, and the configured add_eos_token is enabled.
C5_EosAppendedIffEnabled ==
    tokenized.done =>
        LET raw == tokenizer(FullPrompt, tk.cutoff_len).input_ids
        IN  FullEosAppended <=>
                /\ Last(raw) # eos_token_id
                /\ Len(raw) < tk.cutoff_len
                /\ tk.add_eos_token

\* C6: every tokenized example has input_ids, attention_mask and labels of
\* equal length, and that length is at most cutoff_len.
C6_EqualLengthsWithinCutoff ==
    tokenized.done =>
        /\ Len(tokenized.input_ids) = Len(tokenized.attention_mask)
        /\ Len(tokenized.input_ids) = Len(tokenized.labels)
        /\ Len(tokenized.input_ids) <= tk.cutoff_len

\* A masked example whose full prompt was cut at cutoff_len and whose last
\* position is still trained on.
C6_Witness ==
    /\ tokenized.done
    /\ ~tk.train_on_inputs
    /\ tk.add_eos_token
    /\ Len(FullPrompt) > tk.cutoff_len
    /\ Len(tokenized.input_ids) = tk.cutoff_len
    /\ tokenized.labels[1] = IGNORE_INDEX
    /\ Last(tokenized.labels) # IGNORE_INDEX

---------------------------------------------------------------------------
(* Properties of one run of train (Spec) *)

PrecisionConflict(c) ==
    BoolSum(<<c.train_fp16, c.train_bf16, c.train_4bit>>) >= 2
NoBatchSpecified(c) ==
    c.gradient_accumulation_steps = 0 /\ c.global_batch_size = 0
InvalidConfig(c) == PrecisionConflict(c) \/ NoBatchSpecified(c)

\* C2: a run whose arguments are invalid (two or more precision flags, or
\* neither gradient_accumulation_steps nor global_batch_size) never gets past
\* the two validation steps except into the error they raise, and has loaded
\* no model, tokenizer or dataset.
C2_InvalidConfigFailsBeforeLoading ==
    InvalidConfig(cfg) =>
        /\ pc \in {"start", "batches", "error"}
        /\ pc = "error" => err \in {"Exception: precision", "Exception: batches"}
        /\ ~loaded.model /\ ~loaded.tokenizer /\ ~loaded.peft
        /\ ~loaded.data /\ ~loaded.eval_data

\* A distributed run with valid precision flags that calculate_batches(0, p, 0)
\* has ended.
C2_Witness ==
    /\ pc = "error"
    /\ err = "Exception: batches"
    /\ ~PrecisionConflict(cfg)
    /\ NoBatchSpecified(cfg)
    /\ ddp

\* C7: the batch configuration reported and handed to the trainer satisfies
\* global_batch_size = per_device_train_batch_size x device count x
\* gradient_accumulation_steps, in single-device and in distributed mode.
C7_TrainerBatchIsProduct ==
    trainer.built =>
        batch.global_batch_size =
            trainer.args.per_device_train_batch_size * cfg.WORLD_SIZE
            * trainer.args.gradient_accumulation_steps

ExpectedCheckpointMissing ==
    /\ cfg.resume_from_checkpoint = "ckpt"
    /\ ~exists(CkptFull)
    /\ ~cfg.is_finetune => ~exists(CkptAdapter)

\* C8: when the directory resume_from_checkpoint names lacks the expected
\* checkpoint file, train prints the warning and the trainer is not asked to
\* restore state from that directory (training starts from scratch), with an
\* adapter and with is_finetune.
C8_MissingCheckpointWarnsAndStartsFresh ==
    (ExpectedCheckpointMissing /\ trainer.resume_from_checkpoint # "unset") =>
        /\ resume.warned
        /\ trainer.resume_from_checkpoint # "ckpt"
        /\ err # "ValueError"

SnapshotsFollowSaves ==
    /\ trainer.built =>
          (("SavePeftModelCallback" \in trainer.callbacks) <=> ~cfg.is_finetune)
    /\ (~cfg.is_finetune /\ pc # "on_save") =>
          \A s \in disk.checkpoints :
              PeftModelPath(cfg.output_dir, s) \in disk.snapshots
    /\ disk.snapshots \subseteq
          {PeftModelPath(cfg.output_dir, s) : s \in disk.checkpoints}

\* C9: the callback is registered exactly when an adapter is attached; with an
\* adapter every save event at step s is followed by the adapter written to
\* output_dir/checkpoint-s/adapter_model (and nothing else is written); and
\* the callback hands the control object back unchanged.
C9_AdapterSnapshotAtEverySave ==
    /\ []SnapshotsFollowSaves
    /\ [][pc = "on_save" => trainer'.control = trainer.control]_vars

\* An adapter run back in the training loop after the save event of step
\* MaxSteps, its snapshot written.
C9_Witness ==
    /\ ~cfg.is_finetune
    /\ pc = "training"
    /\ trainer.state.global_step = MaxSteps
    /\ MaxSteps \in disk.checkpoints
    /\ PeftModelPath(cfg.output_dir, MaxSteps) \in disk.snapshots

---------------------------------------------------------------------------
(* Properties of repeated runs on one working directory (SpecCache) *)

CacheErrors == {"UnboundLocalError", "FileNotFoundError"}
PastCache ==
    \/ pc \in {"build", "train", "training", "save", "on_save", "done"}
    \/ pc = "error" /\ err \in CacheErrors \cup {"ValueError"}

\* C3: a run that finds the cache path of the previous run in place, under the
\* same val_set_size and use_second_set, makes no tokenizer call and gets
\* train and validation datasets of the sizes the previous run got.
C3_RerunReusesCache ==
    (run >= 2 /\ prev.cache_existed /\ PastCache
     /\ cfg.val_set_size = prev.val_set_size
     /\ cfg.use_second_set = prev.use_second_set) =>
        /\ data.tokenizer_calls = 0
        /\ err \notin CacheErrors
        /\ data.train_data.state = "dataset"
        /\ data.train_data = prev.train_data
        /\ data.val_data = prev.val_data

\* C10: with val_set_size > 0 and no second set, the first run on an empty
\* cache splits val_set_size rows off the training data, tokenizes both
\* splits, persists both and goes on to the trainer without error.
C10_FirstRunSplitsAndPersists ==
    (run = 1 /\ cfg.val_set_size > 0 /\ ~cfg.use_second_set /\ PastCache) =>
        /\ err \notin CacheErrors
        /\ data.tokenizer_calls = TrainRows
        /\ data.val_data = Dataset(cfg.val_set_size)
        /\ data.train_data = Dataset(TrainRows - cfg.val_set_size)
        /\ exists(save_to_path)
        /\ disk.rows[save_to_path] = TrainRows - cfg.val_set_size
        /\ \E q \in CachePaths \ {save_to_path} :
              exists(q) /\ disk.rows[q] = cfg.val_set_size

\* The run took a cache-hit branch (LoadCachedSplits or LoadCachedTrainOnly):
\* it is past the cache block without a tokenizer call.
TookCacheHit == PastCache /\ data.tokenizer_calls = 0

\* The paths the cache-hit branch passes to load_from_disk.
CacheHitReads ==
    {save_to_path} \cup
        (IF cfg.val_set_size > 0 THEN {save_to_eval(cfg)} ELSE {})

\* C11: after any sequence of runs with varying val_set_size and
\* use_second_set, a run that takes the cache-hit branch finds every path the
\* branch loads (the training path and, with validation, the validation path)
\* on disk, written by an earlier run, and so loads them without error.
C11_CacheHitReadsExist ==
    TookCacheHit =>
        /\ CacheHitReads \subseteq disk.files
        /\ err \notin CacheErrors
        /\ data.train_data.state = "dataset"
        /\ cfg.val_set_size > 0 => data.val_data.state = "dataset"

=============================================================================
